---- MODULE Spec2Model ----
(***************************************************************************)
(* Model of mage_ai/orchestration/db/__init__.py: the start-up code that   *)
(* resolves the database connection URL, builds the engine and runs the    *)
(* one-shot schema step, the DBConnection session guard, and the           *)
(* safe_db_query retry wrapper.                                            *)
(*                                                                         *)
(* Two specifications share the variables:                                 *)
(*   SpecStartup  the module body, lines 22-133, run once per environment  *)
(*   Spec         the guard and the wrapper as used after start-up         *)
(*                                                                         *)
(* Representation.  Python's None is a value of the same shape as the      *)
(* values it stands beside: a session with id 0, a URL whose kind is       *)
(* "None".  The URL string is kept in its parsed parts; the authority      *)
(* part "user:password@host" is a sequence of characters, so              *)
(* that urlparse, quote_plus and str.replace act on text.                  *)
(***************************************************************************)
EXTENDS Integers, Sequences, FiniteSets

\* ------------------------------------------------------------------ bounds
MaxPwdLen == 2      \* longest password of an explicit connection URL
MaxOptions == 1     \* most settings in the "options" query parameter
MaxSessions == 3    \* most scoped_session objects created in one run

\* --------------------------------------------------------- program constants
DB_RETRY_COUNT == 2
PoolSize == 50
TEST_DB == "test.db"

\* ------------------------------------------------------------- text helpers
RECURSIVE SeqsUpTo(_, _)
SeqsUpTo(S, n) ==
    IF n = 0 THEN {<<>>}
    ELSE LET shorter == SeqsUpTo(S, n - 1)
         IN  shorter \cup {Append(s, x) : s \in shorter, x \in S}

IsPrefixAt(s, i, p) ==
    /\ i + Len(p) - 1 <= Len(s)
    /\ \A k \in 1..Len(p) : s[i + k - 1] = p[k]

\* str.replace(old, new): every non-overlapping occurrence, left to right.
RECURSIVE ReplaceFrom(_, _, _, _)
ReplaceFrom(s, i, old, new) ==
    IF i > Len(s) THEN <<>>
    ELSE IF Len(old) > 0 /\ IsPrefixAt(s, i, old)
         THEN new \o ReplaceFrom(s, i + Len(old), old, new)
         ELSE <<s[i]>> \o ReplaceFrom(s, i + 1, old, new)

Replace(s, old, new) == ReplaceFrom(s, 1, old, new)

\* urllib.parse.quote_plus on one character: unreserved characters stay,
\* a space becomes "+", anything else becomes its %XX escape.
QuoteChar(c) ==
    CASE c = "@" -> <<"%", "4", "0">>
      [] c = ":" -> <<"%", "3", "A">>
      [] c = " " -> <<"+">>
      [] OTHER   -> <<c>>

RECURSIVE quote_plus(_)
quote_plus(s) ==
    IF s = <<>> THEN <<>> ELSE QuoteChar(Head(s)) \o quote_plus(Tail(s))

\* Positions of character c in s.
Positions(s, c) == {i \in 1..Len(s) : s[i] = c}

SetMax(S) == CHOOSE x \in S : \A y \in S : y <= x
SetMin(S) == CHOOSE x \in S : \A y \in S : x <= y

\* urlparse(url).password: the user-info is what precedes the LAST "@" of
\* the authority; the password is what follows its FIRST ":".  None and ""
\* are both falsy and both <<>> here.
UrlPassword(netloc) ==
    IF Positions(netloc, "@") = {} THEN <<>>
    ELSE LET userinfo == SubSeq(netloc, 1, SetMax(Positions(netloc, "@")) - 1)
         IN  IF Positions(userinfo, ":") = {} THEN <<>>
             ELSE SubSeq(userinfo, SetMin(Positions(userinfo, ":")) + 1,
                         Len(userinfo))

\* ---------------------------------------------------------------- the URL
NoOptions == <<>>

NoneUrl  == [kind |-> "None",  dialect |-> "", driver |-> "",
             netloc |-> <<>>, path |-> "", options |-> NoOptions]
EmptyUrl == [kind |-> "empty", dialect |-> "", driver |-> "",
             netloc |-> <<>>, path |-> "", options |-> NoOptions]

SqliteUrl(path) ==
    [kind |-> "url", dialect |-> "sqlite", driver |-> "",
     netloc |-> <<>>, path |-> path, options |-> NoOptions]

Netloc(user, pwd, host) ==
    IF pwd = <<>> THEN user \o <<"@">> \o host
    ELSE user \o <<":">> \o pwd \o <<"@">> \o host

PostgresUrl(driver, user, pwd, host, path, options) ==
    [kind |-> "url", dialect |-> "postgresql", driver |-> driver,
     netloc |-> Netloc(user, pwd, host), path |-> path, options |-> options]

\* "not db_connection_url" (lines 30, 33, 49)
Falsy(url) == url.kind \in {"None", "empty"}

\* db_connection_url.startswith('postgresql') (lines 69, 124)
StartsWithPostgresql(url) == url.kind = "url" /\ url.dialect = "postgresql"

\* parse_result.scheme == 'postgresql+psycopg2' (line 111)
SchemeIsPsycopg2(url) ==
    url.kind = "url" /\ url.dialect = "postgresql" /\ url.driver = "psycopg2"


\* The "-c" settings of the "options" query parameter, after line 117's
\* options[0].replace('-c ', '').split(' '): each setting is the list that
\* p.split('=') gives (line 118).  A well-formed setting has two fields.
Settings ==
    { <<"search_path", "s1">>, <<"search_path", "">>,
      <<"timezone", "utc">>, <<"search_path">> }

\* get_postgresql_schema(url), lines 109-119.  raised: dict() got a setting
\* that is not a key/value pair (ValueError).  value: what the function
\* returns, with "" for both None and the empty string (both falsy).
\* dict() keeps the LAST value given for a key.
get_postgresql_schema(url) ==
    IF ~SchemeIsPsycopg2(url) \/ url.options = NoOptions
    THEN [raised |-> FALSE, value |-> ""]
    ELSE LET params == url.options
             hits   == {i \in 1..Len(params) : params[i][1] = "search_path"}
         IN  IF \E i \in 1..Len(params) : Len(params[i]) # 2
             THEN [raised |-> TRUE, value |-> ""]
             ELSE IF hits = {}
                  THEN [raised |-> FALSE, value |-> ""]
                  ELSE [raised |-> FALSE, value |-> params[SetMax(hits)][2]]

\* --------------------------------------------------------- the environment
Passwords == SeqsUpTo({"a", "@"}, MaxPwdLen)
OptionLists == SeqsUpTo(Settings, MaxOptions)

\* Values DATABASE_CONNECTION_URL can have: unset, set to "", or a URL.
UrlInputs ==
    {NoneUrl, EmptyUrl, SqliteUrl("custom.db")}
    \cup { PostgresUrl(d, <<"u">>, p, <<"h">>, "db", o) :
             d \in {"psycopg2", ""}, p \in Passwords, o \in OptionLists }

\* is_test: is_test().  url: os.getenv(DATABASE_CONNECTION_URL_ENV_VAR).
\* db_user: whether DB_USER (with DB_PASS, DB_NAME) is set.  secret: whether
\* DB_SECRET_NAME is set and what the secrets manager would answer.
\* files: which local path exists.  accepts: which forms of the URL the
\* database would accept a connection with (as resolved, or as rewritten).
Envs ==
    [is_test : BOOLEAN, url : UrlInputs, db_user : BOOLEAN,
     secret : {"unset", "ok", "fails"}, files : {"devdir", "legacy", "none"},
     accepts : SUBSET {"raw", "quoted"}]

VarsDirUrl == SqliteUrl("variables_dir/mage-ai.db")

\* Lines 34-47.  The lookup's answer is passed to json.loads, but the module
\* never imports json (lines 1-17): the NameError is caught by line 46 and
\* the URL is left as it was, whatever the secrets manager answered.
AfterSecretLookup(e) == e.url

\* Lines 49-66: what the branch of line 33 would assign.
FallbackUrl(e) ==
    LET url1 == IF ~e.db_user /\ e.secret # "unset"
                THEN AfterSecretLookup(e) ELSE e.url
    IN  IF Falsy(url1) /\ e.db_user
        THEN PostgresUrl("psycopg2", <<"u">>, <<"p">>,
                         <<"1", "2", "7">>, "db", NoOptions)
        ELSE IF e.is_test THEN SqliteUrl(TEST_DB)
        ELSE IF e.files = "devdir"
             THEN SqliteUrl("mage_ai/orchestration/db/mage-ai.db")
        ELSE VarsDirUrl

\* Whether the branch of line 33 would run line 67.
FallbackSetsSameThread(e) ==
    LET url1 == IF ~e.db_user /\ e.secret # "unset"
                THEN AfterSecretLookup(e) ELSE e.url
    IN  ~(Falsy(url1) /\ e.db_user)

\* The if / elif / elif chain of lines 28-67.  The second elif repeats the
\* condition of the first, so Python never takes it.
ResolveUrl(e) ==
    IF e.is_test THEN SqliteUrl(TEST_DB)
    ELSE IF Falsy(e.url) THEN e.url            \* line 31: import boto3
    ELSE IF Falsy(e.url) THEN FallbackUrl(e)   \* lines 33-66
    ELSE e.url

InitialKwargs == [connect_args |-> {}, pool_pre_ping |-> TRUE, pool_size |-> 0]

ResolveKwargs(e) ==
    IF e.is_test THEN InitialKwargs
    ELSE IF Falsy(e.url) THEN InitialKwargs
    ELSE IF Falsy(e.url) /\ FallbackSetsSameThread(e)
         THEN [InitialKwargs EXCEPT
                 !.connect_args = {<<"check_same_thread", "False">>}]
    ELSE InitialKwargs

\* Variant: line 70 missing.
SchemeKwargsNoPool(url, kw) ==
    IF StartsWithPostgresql(url)
    THEN [kw EXCEPT !.connect_args = @ \cup {<<"options", "-c timezone=utc">>}]
    ELSE kw

\* Lines 69-71.  pool_size 0 stands for "key absent".
SchemeKwargs(url, kw) ==
    IF StartsWithPostgresql(url)
    THEN [kw EXCEPT !.pool_size = PoolSize,
                    !.connect_args = @ \cup {<<"options", "-c timezone=utc">>}]
    ELSE kw

\* Whether the database accepts a connection made with this URL text.
ConnectOK(e, url) ==
    IF url.netloc = ResolveUrl(e).netloc
    THEN "raw" \in e.accepts ELSE "quoted" \in e.accepts

\* Lines 81-86: the password urlparse finds is replaced, wherever its text
\* occurs in the URL, by its quote_plus form.
RewriteUrl(url) ==
    LET password == UrlPassword(url.netloc)
    IN  IF password # <<>>
        THEN [url EXCEPT !.netloc = Replace(@, password, quote_plus(password))]
        ELSE url


\* ------------------------------------------------------------------- state
VARIABLES
    env,                \* the environment start-up runs in
    spc,                \* where the module body is (line ranges below)
    db_connection_url,  \* line 22
    db_kwargs,          \* line 23
    engine,             \* made / disposed: create_engine and dispose calls;
                        \* url: the URL the current engine was built from;
                        \* opened: it has opened a connection
    connects,           \* engine.connect() calls (line 78)
    db_schema,          \* line 125
    schemaLog,          \* calls the schema step has made, in order
    startupError,       \* the exception that ended start-up, "" when none
    session,            \* db_connection.session; id 0 is None
    nextId,             \* identity of the next scoped_session object
    closed,             \* ids of the sessions close() was called on
    lastOp,             \* the last guard call: its arguments and effect
    pc,                 \* where func_with_rollback is
    retry_count,        \* line 138
    err,                \* the exception being handled (line 146)
    outcomes,           \* what each invocation of func did, in order
    rollbacks,          \* session.rollback() calls that returned
    trace,              \* invocations and rollbacks of this call, in order
    result,             \* how func_with_rollback ended
    session0            \* the handle when func_with_rollback was entered

startupVars ==
    <<env, spc, db_connection_url, db_kwargs, engine, connects, db_schema,
      schemaLog, startupError>>
guardVars == <<session, nextId, closed, lastOp>>
queryVars == <<pc, retry_count, err, outcomes, rollbacks, trace, result, session0>>
vars == <<startupVars, guardVars, queryVars>>

\* ------------------------------------------------------- the session guard
NoSession == [id |-> 0, is_active |-> FALSE]
NewSession(n) == [id |-> n, is_active |-> TRUE]
NoOp == [op |-> "none", force |-> FALSE, before |-> NoSession,
         after |-> NoSession, raised |-> FALSE]
NoError == [kind |-> "", origin |-> "", attempt |-> 0]

\* Variant: line 100 without "and not force".
KeepsSessionIgnoringForce(s, force) == s.id # 0 /\ s.is_active

\* Line 100: the condition under which start_session returns at once.
KeepsSession(s, force) == s.id # 0 /\ s.is_active /\ ~force

\* DBConnection.start_session, lines 99-102.
start_session(force) ==
    /\ IF KeepsSession(session, force)
       THEN /\ lastOp' = [op |-> "start", force |-> force, before |-> session,
                          after |-> session, raised |-> FALSE]
            /\ UNCHANGED <<session, nextId>>
       ELSE /\ nextId <= MaxSessions
            /\ session' = NewSession(nextId)
            /\ nextId' = nextId + 1
            /\ lastOp' = [op |-> "start", force |-> force, before |-> session,
                          after |-> NewSession(nextId), raised |-> FALSE]
    /\ UNCHANGED closed

\* Variant: close_session without line 106.
AfterCloseNoReset(s) == s

\* What line 106 leaves in the handle.
AfterClose(s) == NoSession

\* DBConnection.close_session, lines 104-106.  With the handle None,
\* line 105 raises AttributeError and line 106 is not reached.
close_session ==
    IF session.id = 0
    THEN /\ lastOp' = [op |-> "close", force |-> FALSE, before |-> session,
                       after |-> session, raised |-> TRUE]
         /\ UNCHANGED <<session, nextId, closed>>
    ELSE /\ closed' = closed \cup {session.id}
         /\ session' = AfterClose(session)
         /\ lastOp' = [op |-> "close", force |-> FALSE, before |-> session,
                       after |-> AfterClose(session), raised |-> FALSE]
         /\ UNCHANGED nextId

\* ----------------------------------------------------------------- start-up
NoEngine == [made |-> 0, disposed |-> 0, url |-> NoneUrl, opened |-> FALSE]

QueryIdle ==
    /\ pc = "idle" /\ retry_count = 0 /\ err = NoError /\ outcomes = <<>>
    /\ rollbacks = 0 /\ trace = <<>> /\ result = [kind |-> "none"]
    /\ session0 = NoSession

GuardInit ==
    /\ session = NoSession /\ nextId = 1 /\ closed = {} /\ lastOp = NoOp

InitStartup ==
    /\ env \in Envs
    /\ spc = "resolve"
    /\ db_connection_url = NoneUrl
    /\ db_kwargs = InitialKwargs
    /\ engine = NoEngine
    /\ connects = 0
    /\ db_schema = ""
    /\ schemaLog = <<>>
    /\ startupError = ""
    /\ GuardInit
    /\ QueryIdle

Abort(e) == spc' = "aborted" /\ startupError' = e

\* Lines 22-67.
Resolve ==
    /\ spc = "resolve"
    /\ db_connection_url' = ResolveUrl(env)
    /\ db_kwargs' = ResolveKwargs(env)
    /\ spc' = "scheme"
    /\ UNCHANGED <<env, engine, connects, db_schema, schemaLog, startupError,
                   guardVars, queryVars>>

\* Lines 69-71.  None has no startswith.
SchemeOptions ==
    /\ spc = "scheme"
    /\ IF db_connection_url.kind = "None"
       THEN Abort("AttributeError") /\ UNCHANGED db_kwargs
       ELSE /\ db_kwargs' = SchemeKwargs(db_connection_url, db_kwargs)
            /\ spc' = "engine"
            /\ UNCHANGED startupError
    /\ UNCHANGED <<env, db_connection_url, engine, connects, db_schema,
                   schemaLog, guardVars, queryVars>>

\* Lines 73-78.  create_engine rejects the empty string (ArgumentError, a
\* SQLAlchemyError) before engine is bound; otherwise engine.connect() is
\* tried once.
EngineTry ==
    /\ spc = "engine"
    /\ IF db_connection_url.kind = "empty"
       THEN /\ spc' = "engine_except"
            /\ UNCHANGED <<engine, connects>>
       ELSE /\ connects' = connects + 1
            /\ engine' = [made |-> 1, disposed |-> 0, url |-> db_connection_url,
                          opened |-> ConnectOK(env, db_connection_url)]
            /\ spc' = IF ConnectOK(env, db_connection_url)
                      THEN "schema" ELSE "engine_except"
    /\ UNCHANGED <<env, db_connection_url, db_kwargs, db_schema, schemaLog,
                   startupError, guardVars, queryVars>>

\* Whether create_engine accepts the rewritten URL.  When the rewrite has
\* consumed the "@" that ends the user-info, the text after the first ":"
\* is read as a port; the library may reject it (ValueError).
RebuildOutcomes(url) ==
    IF url.netloc # <<>> /\ Positions(url.netloc, "@") = {}
    THEN {TRUE, FALSE} ELSE {TRUE}

\* Variant: the handler ends with a second engine.connect(), whose failure
\* propagates.
EngineExceptReconnecting ==
    /\ spc = "engine_except"
    /\ IF engine.made = 0
       THEN /\ Abort("NameError")
            /\ UNCHANGED <<db_connection_url, engine, connects>>
       ELSE /\ db_connection_url' = RewriteUrl(db_connection_url)
            /\ connects' = connects + 1
            /\ engine' = [made |-> engine.made + 1,
                          disposed |-> engine.disposed + 1,
                          url |-> RewriteUrl(db_connection_url),
                          opened |-> ConnectOK(env, RewriteUrl(db_connection_url))]
            /\ IF ConnectOK(env, RewriteUrl(db_connection_url))
               THEN spc' = "schema" /\ UNCHANGED startupError
               ELSE Abort("OperationalError")
    /\ UNCHANGED <<env, db_kwargs, db_schema, schemaLog, guardVars, queryVars>>

\* Lines 79-90.  With engine unbound, line 80 raises NameError.  The new
\* engine is only constructed: no connection is opened with it here.
EngineExcept ==
    /\ spc = "engine_except"
    /\ IF engine.made = 0
       THEN /\ Abort("NameError")
            /\ UNCHANGED <<db_connection_url, engine>>
       ELSE /\ db_connection_url' = RewriteUrl(db_connection_url)
            /\ \E built \in RebuildOutcomes(RewriteUrl(db_connection_url)) :
                 IF built
                 THEN /\ engine' = [made |-> engine.made + 1,
                                    disposed |-> engine.disposed + 1,
                                    url |-> RewriteUrl(db_connection_url),
                                    opened |-> FALSE]
                      /\ spc' = "schema"
                      /\ UNCHANGED startupError
                 ELSE /\ engine' = [engine EXCEPT !.disposed = @ + 1]
                      /\ Abort("ValueError")
    /\ UNCHANGED <<env, connects, db_kwargs, db_schema, schemaLog, guardVars,
                   queryVars>>

\* Lines 122-126 and 132-133.
SchemaCheck ==
    /\ spc = "schema"
    /\ IF ~StartsWithPostgresql(db_connection_url)
       THEN spc' = "done" /\ UNCHANGED <<db_schema, startupError>>
       ELSE LET r == get_postgresql_schema(db_connection_url)
            IN  IF r.raised
                THEN Abort("ValueError") /\ UNCHANGED db_schema
                ELSE /\ db_schema' = r.value
                     /\ spc' = IF r.value # "" THEN "schema_start" ELSE "done"
                     /\ UNCHANGED startupError
    /\ UNCHANGED <<env, db_connection_url, db_kwargs, engine, connects,
                   schemaLog, guardVars, queryVars>>

\* Line 127.
SchemaStart ==
    /\ spc = "schema_start"
    /\ start_session(FALSE)
    /\ schemaLog' = Append(schemaLog, "start")
    /\ spc' = "schema_execute"
    /\ UNCHANGED <<env, db_connection_url, db_kwargs, engine, connects,
                   db_schema, startupError, queryVars>>

\* Line 128.  The statement needs a connection, which the engine opens now
\* if it has none; when the database refuses it, the OperationalError ends
\* start-up with the session still held.
SchemaExecute ==
    /\ spc = "schema_execute"
    /\ schemaLog' = Append(schemaLog, "execute")
    /\ IF engine.opened \/ ConnectOK(env, engine.url)
       THEN /\ engine' = [engine EXCEPT !.opened = TRUE]
            /\ spc' = "schema_commit"
            /\ UNCHANGED startupError
       ELSE Abort("OperationalError") /\ UNCHANGED engine
    /\ UNCHANGED <<env, db_connection_url, db_kwargs, connects, db_schema,
                   guardVars, queryVars>>

\* Line 129.
SchemaCommit ==
    /\ spc = "schema_commit"
    /\ schemaLog' = Append(schemaLog, "commit")
    /\ spc' = "schema_close"
    /\ UNCHANGED <<env, db_connection_url, db_kwargs, engine, connects,
                   db_schema, startupError, guardVars, queryVars>>

\* Lines 130-131.
SchemaClose ==
    /\ spc = "schema_close"
    /\ close_session
    /\ schemaLog' = Append(schemaLog, "close")
    /\ spc' = "done"
    /\ UNCHANGED <<env, db_connection_url, db_kwargs, engine, connects,
                   db_schema, startupError, queryVars>>

NextStartup ==
    \/ Resolve
    \/ SchemeOptions
    \/ EngineTry
    \/ EngineExcept
    \/ SchemaCheck
    \/ SchemaStart
    \/ SchemaExecute
    \/ SchemaCommit
    \/ SchemaClose

SpecStartup == InitStartup /\ [][NextStartup]_vars


\* ------------------------------------------------------------ safe_db_query
\* What an invocation of the wrapped function can do: return a value, or
\* raise an exception of one of these classes.
Values == {"v1", "v2"}
ErrorKinds ==
    {"OperationalError", "PendingRollbackError", "InternalError",
     "IntegrityError", "ValueError"}

\* Variant: a bare "except Exception".
QualifyingAnyError(kind) == TRUE

\* Lines 142-146: the classes the except clause catches.
Qualifying(kind) ==
    kind \in {"OperationalError", "PendingRollbackError", "InternalError"}

\* Variant: the budget test written with > instead of >=.
BudgetExhaustedOffByOne(count) == count > DB_RETRY_COUNT

\* Line 148.
BudgetExhausted(count) == count >= DB_RETRY_COUNT

\* Variant: func is called without "return".
ReturnedNone(v) == [kind |-> "return", value |-> "None", error |-> NoError]

\* Line 141: the value func returned is the value returned.
Returned(v) == [kind |-> "return", value |-> v, error |-> NoError]

Raised(e) == [kind |-> "raise", value |-> "", error |-> e]

\* A failing statement can leave the session in the state in which
\* is_active is False until rollback() is called.
AfterFailure(s) ==
    IF s.id = 0 THEN {s} ELSE {s, [s EXCEPT !.is_active = FALSE]}

\* The state in which the process serves queries: start-up has finished (in
\* test mode, with the database reachable) and no session is held.
ServingEnv ==
    [is_test |-> TRUE, url |-> NoneUrl, db_user |-> FALSE, secret |-> "unset",
     files |-> "none", accepts |-> {"raw"}]

Started ==
    /\ env = ServingEnv
    /\ spc = "done"
    /\ db_connection_url = SqliteUrl(TEST_DB)
    /\ db_kwargs = InitialKwargs
    /\ engine = [made |-> 1, disposed |-> 0, url |-> SqliteUrl(TEST_DB),
                 opened |-> TRUE]
    /\ connects = 1
    /\ db_schema = ""
    /\ schemaLog = <<>>
    /\ startupError = ""

Init == Started /\ GuardInit /\ QueryIdle

\* A caller calls db_connection.start_session(force).
StartSession ==
    /\ pc = "idle"
    /\ \E force \in BOOLEAN : start_session(force)
    /\ UNCHANGED <<startupVars, queryVars>>

\* A caller calls db_connection.close_session().
CloseSession ==
    /\ pc = "idle"
    /\ close_session
    /\ UNCHANGED <<startupVars, queryVars>>

\* Lines 137-139: a caller calls a function wrapped by safe_db_query.
Enter ==
    /\ pc = "idle"
    /\ pc' = "try"
    /\ retry_count' = 0
    /\ session0' = session
    /\ UNCHANGED <<err, outcomes, rollbacks, trace, result>>
    /\ UNCHANGED <<startupVars, guardVars>>

\* Lines 140-146: func is invoked; it returns, or raises an exception that
\* the except clause catches or lets through.
Invoke ==
    /\ pc = "try"
    /\ trace' = Append(trace, "invoke")
    /\ \/ \E v \in Values :
            /\ outcomes' = Append(outcomes, [ret |-> TRUE, value |-> v, kind |-> ""])
            /\ result' = Returned(v)
            /\ pc' = "done"
            /\ UNCHANGED <<err, session>>
       \/ \E k \in ErrorKinds, s \in AfterFailure(session) :
            LET e == [kind |-> k, origin |-> "func", attempt |-> Len(outcomes) + 1]
            IN  /\ outcomes' = Append(outcomes, [ret |-> FALSE, value |-> "", kind |-> k])
                /\ session' = s
                /\ IF Qualifying(k)
                   THEN /\ err' = e
                        /\ pc' = "except"
                        /\ UNCHANGED result
                   ELSE /\ result' = Raised(e)
                        /\ pc' = "done"
                        /\ UNCHANGED err
    /\ UNCHANGED <<retry_count, rollbacks, session0, nextId, closed, lastOp>>
    /\ UNCHANGED startupVars

\* Lines 147-150.  With the handle None, line 147 raises AttributeError;
\* rollback() itself can raise; otherwise the budget decides between
\* re-raising the caught exception and another turn of the loop.
Handle ==
    /\ pc = "except"
    /\ IF session.id = 0
       THEN /\ result' = Raised([kind |-> "AttributeError", origin |-> "wrapper",
                                 attempt |-> 0])
            /\ pc' = "done"
            /\ UNCHANGED <<session, rollbacks, retry_count, trace>>
       ELSE \E returns \in BOOLEAN :
              IF returns
              THEN /\ session' = [session EXCEPT !.is_active = TRUE]
                   /\ rollbacks' = rollbacks + 1
                   /\ trace' = Append(trace, "rollback")
                   /\ IF BudgetExhausted(retry_count)
                      THEN /\ result' = Raised(err)
                           /\ pc' = "done"
                           /\ UNCHANGED retry_count
                      ELSE /\ retry_count' = retry_count + 1
                           /\ pc' = "try"
                           /\ UNCHANGED result
              ELSE /\ result' = Raised([kind |-> "OperationalError",
                                        origin |-> "rollback", attempt |-> 0])
                   /\ trace' = Append(trace, "rollback_raised")
                   /\ pc' = "done"
                   /\ UNCHANGED <<session, rollbacks, retry_count>>
    /\ UNCHANGED <<err, outcomes, session0, nextId, closed, lastOp>>
    /\ UNCHANGED startupVars

\* func_with_rollback has returned or raised; its locals are gone.
Leave ==
    /\ pc = "done"
    /\ pc' = "idle"
    /\ retry_count' = 0
    /\ err' = NoError
    /\ outcomes' = <<>>
    /\ rollbacks' = 0
    /\ trace' = <<>>
    /\ result' = [kind |-> "none"]
    /\ session0' = NoSession
    /\ UNCHANGED <<startupVars, guardVars>>

Next ==
    \/ StartSession
    \/ CloseSession
    \/ Enter
    \/ Invoke
    \/ Handle
    \/ Leave

Spec == Init /\ [][Next]_vars


\* ================================================================== claims
Range(q) == {q[i] : i \in 1..Len(q)}

TransientKinds == {"OperationalError", "PendingRollbackError", "InternalError"}

IsTransient(o) == ~o.ret /\ o.kind \in TransientKinds

\* Every rollback of this call returned, on a session that was held.
RollbacksSucceeded == session0.id # 0 /\ "rollback_raised" \notin Range(trace)

\* The serving state Init starts from is the state start-up ends in.
StartedIsWhereStartupEnds == (env = ServingEnv /\ spc = "done") => Started

\* C1: with a held session whose rollbacks succeed, a function that raises a
\* transient error on every invocation is invoked exactly 3 times and the
\* caller then gets the error of the third invocation.
C1_ExhaustedBudgetReraises ==
    (/\ pc = "done"
     /\ RollbacksSucceeded
     /\ \A i \in 1..Len(outcomes) : IsTransient(outcomes[i]))
    => /\ Len(outcomes) = DB_RETRY_COUNT + 1
       /\ Len(outcomes) = 3
       /\ rollbacks = 3
       /\ result.kind = "raise"
       /\ result.error = [kind |-> outcomes[3].kind, origin |-> "func",
                          attempt |-> 3]

C1_Witness ==
    /\ pc = "done"
    /\ RollbacksSucceeded
    /\ Len(outcomes) = 3
    /\ \A i \in 1..3 : IsTransient(outcomes[i])
    /\ result.kind = "raise"

\* C2: a function that raises a transient error on its first two
\* invocations and returns on the third: the caller gets the value the third
\* invocation returned, and exactly two rollbacks were issued, one after
\* each failed invocation and before the next invocation.
C2_TwoFailuresThenSuccess ==
    (/\ pc = "done"
     /\ Len(outcomes) = 3
     /\ IsTransient(outcomes[1])
     /\ IsTransient(outcomes[2])
     /\ outcomes[3].ret)
    => /\ result.kind = "return"
       /\ result.value = outcomes[3].value
       /\ rollbacks = 2
       /\ trace = <<"invoke", "rollback", "invoke", "rollback", "invoke">>

C2_Witness ==
    /\ pc = "done"
    /\ Len(outcomes) = 3
    /\ IsTransient(outcomes[1])
    /\ IsTransient(outcomes[2])
    /\ outcomes[3].ret
    /\ result.kind = "return"
    /\ result.value = "v2"

\* The caller got an exception of func that is not a transient one.
NonTransientPropagated ==
    /\ pc = "done"
    /\ result.kind = "raise"
    /\ result.error.origin = "func"
    /\ result.error.kind \notin TransientKinds

\* C3 as stated: a non-transient error reaches the caller after exactly 1
\* invocation with zero rollbacks and the handle unchanged, on whichever
\* attempt it occurs.
C3_Original ==
    NonTransientPropagated
    => /\ Len(outcomes) = 1
       /\ rollbacks = 0
       /\ session.id = session0.id

\* C3 amended: a non-transient error reaches the caller at once: the
\* invocation that raised it is the last one and no rollback follows it.  On
\* the k-th attempt that makes k invocations and k-1 rollbacks (1 and 0 on
\* the first attempt); the handle refers to the same session as on entry.
C3_NonTransientPropagatesAtOnce ==
    NonTransientPropagated
    => /\ result.error.attempt = Len(outcomes)
       /\ result.error.kind = outcomes[Len(outcomes)].kind
       /\ trace[Len(trace)] = "invoke"
       /\ rollbacks = Len(outcomes) - 1
       /\ \A i \in 1..(Len(outcomes) - 1) : IsTransient(outcomes[i])
       /\ session.id = session0.id

C3_Witness ==
    /\ NonTransientPropagated
    /\ Len(outcomes) = 2
    /\ rollbacks = 1

\* C4 as stated: start_session without force is a no-op whenever the handle
\* holds a session.
C4_Original ==
    (lastOp.op = "start" /\ lastOp.before.id # 0 /\ ~lastOp.force)
    => lastOp.after = lastOp.before

\* C4 amended: from EMPTY, start yields ACTIVE; from ACTIVE, start without
\* force is a no-op when the held session is_active, and replaces the held
\* session when it is not; start with force always replaces the held session
\* by a distinct new instance.
C4_StartSessionTransitions ==
    lastOp.op = "start"
    => LET b == lastOp.before
           a == lastOp.after
           fresh == a.id = nextId - 1 /\ a.id # b.id /\ a.id # 0 /\ a.is_active
                    /\ a.id \notin closed
       IN  /\ a.id # 0
           /\ (b.id = 0 => fresh)
           /\ (b.id # 0 /\ b.is_active /\ ~lastOp.force => a = b)
           /\ (b.id # 0 /\ ~b.is_active => fresh)
           /\ (lastOp.force => fresh)

C4_Witness ==
    /\ lastOp.op = "start"
    /\ ~lastOp.force
    /\ lastOp.before.id # 0
    /\ ~lastOp.before.is_active
    /\ lastOp.after.id # lastOp.before.id

\* Sessions created and not yet closed.
Unreleased == (1..(nextId - 1)) \ closed

\* C5 as stated: at most one session has been created and not yet released
\* by close; close from ACTIVE closes the held session and empties the handle.
C5_Original ==
    /\ Cardinality(Unreleased) <= 1
    /\ (lastOp.op = "close" /\ ~lastOp.raised)
       => (lastOp.before.id \in closed /\ session = NoSession)

\* C5 amended: the handle holds at most one session, always the most
\* recently created one and never a closed one; a session that
\* start_session replaces is dropped without being closed, so the sessions
\* created and not yet closed can number more than one; close from ACTIVE
\* closes the held session and empties the handle.
C5_HandleHoldsNewestUnclosed ==
    /\ session.id # 0 => (session.id = nextId - 1 /\ session.id \in Unreleased)
    /\ (lastOp.op = "close" /\ ~lastOp.raised)
       => /\ lastOp.before.id # 0
          /\ lastOp.before.id \in closed
          /\ lastOp.after = NoSession
          /\ session = NoSession

C5_Witness ==
    /\ Cardinality(Unreleased) = 2
    /\ lastOp.op = "close"
    /\ ~lastOp.raised
    /\ session = NoSession

\* C9: whatever the guard's state, an error safe_db_query raises to its
\* caller is an error the wrapped function raised.
C9_OnlyOriginalErrorsSurface ==
    (pc = "done" /\ result.kind = "raise") => result.error.origin = "func"


\* ---------------------------------------------------------- start-up claims
PastResolution == spc # "resolve"
PastSchemeOptions == spc \notin {"resolve", "scheme", "aborted"}
PastEngine ==
    spc \in {"schema", "schema_start", "schema_execute", "schema_commit",
             "schema_close", "done"}

\* C6: for every combination of the inputs, resolution ends with a usable
\* (non-empty) connection URL.
C6_ResolutionYieldsUrl == PastResolution => ~Falsy(db_connection_url)

HasPoolOptions ==
    /\ db_kwargs.pool_size = 50
    /\ <<"options", "-c timezone=utc">> \in db_kwargs.connect_args

HasSameThreadOff == <<"check_same_thread", "False">> \in db_kwargs.connect_args

\* C8 as stated: on every resolution path a postgresql URL gets pool_size 50
\* and the UTC option, and a sqlite URL gets check_same_thread = False.
C8_Original ==
    PastSchemeOptions
    => /\ StartsWithPostgresql(db_connection_url) => HasPoolOptions
       /\ db_connection_url.dialect = "sqlite" => HasSameThreadOff

\* C8 amended: a URL that starts with postgresql gets pool_size 50 and the
\* UTC option, and no other URL gets either; check_same_thread = False is
\* set only by the local-file fallback branch, so the sqlite URL of test
\* mode and a sqlite URL given explicitly carry no check_same_thread option.
C8_PoolOptionsFollowScheme ==
    PastSchemeOptions
    => /\ StartsWithPostgresql(db_connection_url) => HasPoolOptions
       /\ ~StartsWithPostgresql(db_connection_url)
          => /\ db_kwargs.pool_size = 0
             /\ <<"options", "-c timezone=utc">> \notin db_kwargs.connect_args
       /\ db_kwargs.pool_pre_ping
       /\ (env.is_test \/ ~Falsy(env.url)) /\ db_connection_url.dialect = "sqlite"
          => ~HasSameThreadOff

C8_Witness ==
    /\ spc = "done"
    /\ env.is_test
    /\ db_connection_url = SqliteUrl(TEST_DB)
    /\ db_kwargs.connect_args = {}

\* The options of the URL name a target schema.
SchemaInOptions(url) ==
    \E i \in 1..Len(url.options) :
        /\ Len(url.options[i]) = 2
        /\ url.options[i][1] = "search_path"
        /\ url.options[i][2] # ""

\* C10: start-up runs start, execute, commit, close, in that order and once,
\* exactly when the URL is a postgresql one whose options name a schema;
\* close_session is only called with a session held; the guard is EMPTY when
\* start-up finishes.
C10_SchemaStepExactlyWhenConfigured ==
    /\ spc = "done"
       => /\ (schemaLog = <<"start", "execute", "commit", "close">>)
               <=> (StartsWithPostgresql(db_connection_url)
                    /\ SchemaInOptions(db_connection_url))
          /\ schemaLog \in {<<>>, <<"start", "execute", "commit", "close">>}
          /\ session = NoSession
    /\ lastOp.op = "close" => ~lastOp.raised

====
